---- MODULE Spec2Model ----
(***************************************************************************)
(* FT Magnitude/Phase Mixer: the control side (ApplicationLogic, running   *)
(* on the GUI thread), the core objects it owns (ImageProcessor,           *)
(* FFTAnalyzer, Mixer) and the background MixingThread workers, with the   *)
(* queued signal connections that carry worker events back to the GUI      *)
(* thread.                                                                 *)
(*                                                                         *)
(* Abstractions.  A raster is a record [name, shape]; its pixels are not   *)
(* modelled.  A processed image records which raster it came from, the     *)
(* shape it was resized to and the contrast/brightness applied.  The       *)
(* result of mix_images is the record of everything the numeric pipeline   *)
(* read (frame, contributing slots, their weight, component and mask);     *)
(* two mixes are taken to be equal only when those inputs are equal.       *)
(* Weights are kept in percent (slider units), contrast in hundredths.     *)
(* Every GUI-thread handler is one atomic action; a worker is atomic       *)
(* between the points named by its pc.                                     *)
(***************************************************************************)
EXTENDS Integers, Sequences, FiniteSets, TLC

VARIABLES
    raw_images,          \* ApplicationLogic.raw_images
    current_weights,     \* ApplicationLogic.current_weights (percent)
    brightness,          \* ImageProcessor._brightness
    contrast,            \* ImageProcessor._contrast (hundredths)
    min_height,          \* ImageProcessor._min_height
    min_width,           \* ImageProcessor._min_width
    selector_region,     \* FFTAnalyzer.selector_region <<x, y, w, h>>
    ft_mode,             \* FFTAnalyzer.ft_mode
    region_mode,         \* Mixer._region_mode
    component_selectors, \* ui.component_selectors[i].current_selection
    region_size_slider,  \* ui.region_size_slider.value()
    output_selector,     \* ui.output_selector.current_selection
    output_image_1,      \* pixmap shown by ui.output_image_1
    output_image_2,      \* pixmap shown by ui.output_image_2
    status_label,        \* ui.status_label text
    progress_bar,        \* ui.progress_bar value
    worker_thread,       \* ApplicationLogic.worker_thread
    threads,             \* every MixingThread created so far, oldest first
    queue,               \* events posted to the GUI thread, not yet handled
    emitted,             \* history: per job, the signals it has emitted
    submitted,           \* history: per job, the mix of the inputs at submit
    superseded,          \* history: jobs alive when a newer job was started
    user_ops,            \* history: operator actions counted against the bound
    delivered,           \* history: terminal events handled, in order
    call                 \* the last direct call of a core method, with its result

vars == <<raw_images, current_weights, brightness, contrast, min_height,
          min_width, selector_region, ft_mode, region_mode,
          component_selectors, region_size_slider, output_selector,
          output_image_1, output_image_2, status_label, progress_bar,
          worker_thread, threads, queue, emitted, submitted, superseded,
          user_ops, delivered, call>>

-----------------------------------------------------------------------------
(* Bounds and input sets *)

MaxUserOps == 3                    \* operator actions in a run

NumSlots == 4
Slots == 0 .. (NumSlots - 1)
UsedSlots == {0, 1}                  \* slots the operator acts on
RasterFiles == { [name |-> "A", shape |-> <<300, 400>>],
                 [name |-> "B", shape |-> <<250, 500>>] }
WeightValues == {0, 50}            \* slider positions released by the operator
SizeValues == {100, 400}           \* region-size slider positions (range 50..400)

-----------------------------------------------------------------------------
(* Optional values: Python's None and a present value *)

None == << >>
Some(x) == <<x>>
Get(o) == o[1]

Min(S) == CHOOSE x \in S : \A y \in S : x <= y
Max2(a, b) == IF a >= b THEN a ELSE b
Min2(a, b) == IF a <= b THEN a ELSE b

-----------------------------------------------------------------------------
(* ImageProcessor *)

\* cvRound of v/100 for v >= 0: to nearest, ties to even
cvRound100(v) ==
    LET q == v \div 100
        r == v % 100
    IN  IF r < 50 THEN q
        ELSE IF r > 50 THEN q + 1
        ELSE IF q % 2 = 0 THEN q ELSE q + 1

Abs(v) == IF v < 0 THEN -v ELSE v

\* cv2.convertScaleAbs on one uint8 pixel: saturate_cast<uchar>(|src*alpha +
\* beta|), alpha in hundredths
convertScaleAbs(src, alpha, beta) ==
    Min2(255, cvRound100(Abs(alpha * src + 100 * beta)))

set_brightness(s, index, value) == [s EXCEPT !.brightness[index] = value]

\* a set_contrast that stores the value as given
set_contrast_unclamped(s, index, value) == [s EXCEPT !.contrast[index] = value]

set_contrast(s, index, value) == [s EXCEPT !.contrast[index] = Max2(0, value)]

\* reset_adjustments(index) on the state record s
reset_adjustments(s, index) ==
    [s EXCEPT !.brightness[index] = 0, !.contrast[index] = 100]

\* a process_input_images that only ever shrinks the cached dimensions
process_input_images_shrinking(images, s) ==
    LET valid_images == {i \in Slots : images[i] # None}
        hs == {Get(images[i]).shape[1] : i \in valid_images} \cup
                (IF s.min_height = None THEN {} ELSE {Get(s.min_height)})
        ws == {Get(images[i]).shape[2] : i \in valid_images} \cup
                (IF s.min_width = None THEN {} ELSE {Get(s.min_width)})
    IN  IF valid_images = {}
        THEN [processed_images |-> [i \in Slots |-> None],
              min_height |-> s.min_height,
              min_width |-> s.min_width]
        ELSE [processed_images |->
                  [i \in Slots |->
                      IF images[i] # None
                      THEN Some([src |-> Get(images[i]).name,
                                 shape |-> <<Min(hs), Min(ws)>>,
                                 alpha |-> s.contrast[i],
                                 beta |-> s.brightness[i]])
                      ELSE None],
              min_height |-> Some(Min(hs)),
              min_width |-> Some(Min(ws))]

\* process_input_images(images), reading and writing the processor's
\* attributes held in s.  Returns the processed list together with the
\* values _min_height and _min_width have afterwards.
process_input_images(images, s) ==
    LET valid_images == {i \in Slots : images[i] # None}
    IN  IF valid_images = {}
        THEN [processed_images |-> [i \in Slots |-> None],
              min_height |-> s.min_height,
              min_width |-> s.min_width]
        ELSE LET mh == Min({Get(images[i]).shape[1] : i \in valid_images})
                 mw == Min({Get(images[i]).shape[2] : i \in valid_images})
             IN  [processed_images |->
                      [i \in Slots |->
                          IF images[i] # None
                          THEN Some([src |-> Get(images[i]).name,
                                     shape |-> <<mh, mw>>,
                                     alpha |-> s.contrast[i],
                                     beta |-> s.brightness[i]])
                          ELSE None],
                  min_height |-> Some(mh),
                  min_width |-> Some(mw)]

-----------------------------------------------------------------------------
(* FFTAnalyzer *)

\* set_region_size(size): the value it returns
set_region_size_ok(s) == s.min_height # None /\ s.min_width # None

\* a set_region_size that resizes the rectangle where it stands
set_region_size_in_place(s, size) ==
    IF ~set_region_size_ok(s)
    THEN s
    ELSE [s EXCEPT !.selector_region[3] = Max2(50, size),
                   !.selector_region[4] = Max2(50, size)]

\* set_region_size(size): the state it leaves
set_region_size(s, size) ==
    IF ~set_region_size_ok(s)
    THEN s
    ELSE LET rect_size == Max2(50, size)
             height == Get(s.min_height)
             width == Get(s.min_width)
             x == (width - rect_size) \div 2
             y == (height - rect_size) \div 2
         IN  [s EXCEPT !.selector_region = <<x, y, rect_size, rect_size>>]

get_component_options(mode) ==
    IF mode = "Magnitude / Phase" THEN <<"FT Magnitude", "FT Phase">>
    ELSE IF mode = "Real / Imaginary" THEN <<"FT Real", "FT Imaginary">>
    ELSE << >>

FtModes == {"Magnitude / Phase", "Real / Imaginary"}

-----------------------------------------------------------------------------
(* Mixer *)

RegionModeItems == {"Inner (Low Freq)", "Outer (High Freq)", "None"}

\* set_region_mode(mode): the internal mode for a segmented-control text
set_region_mode(mode) ==
    IF mode = "Inner (Low Freq)" THEN "Inner"
    ELSE IF mode = "Outer (High Freq)" THEN "Outer"
    ELSE "None"

\* __apply_region_mask: the mask applied to one spectrum, as the mode and
\* the clamped rectangle it is built from
apply_region_mask(mode, region, height, width) ==
    LET w == region[3]
        h == region[4]
        x == Max2(0, Min2(region[1], width - w))
        y == Max2(0, Min2(region[2], height - h))
    IN  IF mode = "None"
        THEN [mode |-> "None", rect |-> << >>]
        ELSE [mode |-> mode, rect |-> <<x, y, w, h>>]

\* the elements <<row, col>> of a height x width array
Grid(height, width) == (0 .. (height - 1)) \X (0 .. (width - 1))

\* a mask whose Outer box is one row and one column larger than the Inner one
region_mask_uneven(mode, region, height, width) ==
    LET w == region[3]
        h == region[4]
        x == Max2(0, Min2(region[1], width - w))
        y == Max2(0, Min2(region[2], height - h))
        InBox(p) == /\ y <= p[1] /\ p[1] < y + h
                    /\ x <= p[2] /\ p[2] < x + w
        InBoxOuter(p) == /\ y <= p[1] /\ p[1] <= y + h
                         /\ x <= p[2] /\ p[2] <= x + w
    IN  [p \in Grid(height, width) |->
            IF mode = "Inner" THEN (IF InBox(p) THEN 1 ELSE 0)
            ELSE IF mode = "Outer" THEN (IF InBoxOuter(p) THEN 0 ELSE 1)
            ELSE 1]

\* __apply_region_mask: the mask array itself, mask[y:y + h, x:x + w] being
\* the elements of rows y .. y+h-1 and columns x .. x+w-1 that exist
region_mask(mode, region, height, width) ==
    LET w == region[3]
        h == region[4]
        x == Max2(0, Min2(region[1], width - w))
        y == Max2(0, Min2(region[2], height - h))
        InBox(p) == /\ y <= p[1] /\ p[1] < y + h
                    /\ x <= p[2] /\ p[2] < x + w
    IN  [p \in Grid(height, width) |->
            IF mode = "Inner" THEN (IF InBox(p) THEN 1 ELSE 0)
            ELSE IF mode = "Outer" THEN (IF InBox(p) THEN 0 ELSE 1)
            ELSE 1]

\* ft_data * mask
masked(ft_data, mask) == [p \in DOMAIN ft_data |-> ft_data[p] * mask[p]]

\* np.zeros((100, 100), dtype=np.uint8)
Placeholder == [kind |-> "placeholder", shape |-> <<100, 100>>, fill |-> 0]

\* a mix_images without the test of the frame: numpy raises on None dimensions
mix_images_unguarded(images, weights, component_selections, region, mh, mw, mode) ==
    IF mw = None \/ mh = None
    THEN [raised |-> TRUE, image |-> Placeholder]
    ELSE [raised |-> FALSE,
          image |-> [kind |-> "mixed", shape |-> <<Get(mh), Get(mw)>>,
                     terms |-> {}]]

\* mix_images: [raised |-> TRUE] when numpy raises (an in-place add of a
\* contribution whose shape differs from the accumulator's), otherwise the
\* mixed image.
mix_images(images, weights, component_selections, region, mh, mw, mode) ==
    IF mw = None \/ mh = None
    THEN [raised |-> FALSE, image |-> Placeholder]
    ELSE LET used == {i \in Slots : images[i] # None /\ weights[i] # 0}
             adds == {i \in used :
                        component_selections[i] \in
                          {"FT Magnitude", "FT Phase", "FT Real", "FT Imaginary"}}
         IN  IF \E i \in adds : Get(images[i]).shape # <<Get(mh), Get(mw)>>
             THEN [raised |-> TRUE, image |-> Placeholder]
             ELSE [raised |-> FALSE,
                   image |->
                     [kind |-> "mixed",
                      shape |-> <<Get(mh), Get(mw)>>,
                      terms |->
                        {[slot |-> i,
                          image |-> Get(images[i]),
                          weight |-> weights[i],
                          selected |-> component_selections[i],
                          mask |-> apply_region_mask(mode, region,
                                                     Get(mh), Get(mw))]
                         : i \in adds}]]

\* Complex numbers are pairs <<re, im>> of integers.  np.abs of the values
\* used is an integer, and exp(1j * angle) is kept in fifths.
np_abs(z) == CHOOSE m \in 0 .. (Abs(z[1]) + Abs(z[2])) :
                 m * m = z[1] * z[1] + z[2] * z[2]

\* 5 * np.exp(1j * np.angle(z)); np.angle(0) is 0
unit_phase(z) ==
    IF z = <<0, 0>> THEN <<5, 0>>
    ELSE <<(5 * z[1]) \div np_abs(z), (5 * z[2]) \div np_abs(z)>>

\* a weighting that leaves the weight out of the phase variant
weighted_complex_unweighted_phase(weight, selected, z) ==
    IF selected = "FT Magnitude"
    THEN <<weight * np_abs(z) * unit_phase(z)[1],
           weight * np_abs(z) * unit_phase(z)[2]>>
    ELSE IF selected = "FT Phase"
    THEN <<100 * unit_phase(z)[1], 100 * unit_phase(z)[2]>>
    ELSE IF selected = "FT Real" THEN <<weight * 5 * z[1], 0>>
    ELSE IF selected = "FT Imaginary" THEN <<0, weight * 5 * z[2]>>
    ELSE <<0, 0>>

\* mix_images, lines 61-87: what one element z of a masked spectrum adds to
\* the accumulator, in units of 1/500 (weight in percent, phase in fifths)
weighted_complex(weight, selected, z) ==
    IF selected = "FT Magnitude"
    THEN <<weight * np_abs(z) * unit_phase(z)[1],
           weight * np_abs(z) * unit_phase(z)[2]>>
    ELSE IF selected = "FT Phase"
    THEN <<weight * unit_phase(z)[1], weight * unit_phase(z)[2]>>
    ELSE IF selected = "FT Real" THEN <<weight * 5 * z[1], 0>>
    ELSE IF selected = "FT Imaginary" THEN <<0, weight * 5 * z[2]>>
    ELSE <<0, 0>>

\* mix_images, lines 47-87: the accumulator after the loop over the slots,
\* ft_images[i] being fftshift(fft2(images[i])) or None for an empty slot
combined_ft(ft_images, weights, component_selections, region, height, width, mode) ==
    LET mask == region_mask(mode, region, height, width)
        adds(i, p) ==
            IF ft_images[i] = None \/ weights[i] = 0
            THEN <<0, 0>>
            ELSE LET z == Get(ft_images[i])[p]
                 IN  weighted_complex(weights[i], component_selections[i],
                                      <<z[1] * mask[p], z[2] * mask[p]>>)
    IN  [p \in Grid(height, width) |->
            <<adds(0, p)[1] + adds(1, p)[1] + adds(2, p)[1] + adds(3, p)[1],
              adds(0, p)[2] + adds(1, p)[2] + adds(2, p)[2] + adds(3, p)[2]>>]

-----------------------------------------------------------------------------
(* MixingThread *)

steps == 5

\* MixingThread.__init__ followed by start(): a live thread about to run
MixingThread ==
    [pc |-> "run", i |-> 0, _is_canceled |-> FALSE,
     processed_images |-> None, component_selections |-> None,
     min_h |-> None, min_w |-> None, result |-> None]

\* threading.Thread.is_alive(): started and run() has not returned
is_alive(t) == t.pc # "done"

\* cancel() that leaves the flag alone
cancel_noop(t) == t

\* MixingThread.cancel()
cancel(t) == [t EXCEPT !._is_canceled = TRUE]

\* a progress value that counts down instead of up
progress_value_down(i) == ((steps - i) * 100) \div steps

\* int((i + 1) / self.steps * 100); the float quotient is exact for steps = 5
progress_value(i) == ((i + 1) * 100) \div steps

-----------------------------------------------------------------------------
(* ApplicationLogic: the handlers as functions of the state record *)

any_loaded(images) == \E i \in Slots : images[i] # None

\* clear_mixed_output that leaves the labels as they are
clear_mixed_output_keeps(s) == s

clear_mixed_output(s) ==
    [s EXCEPT !.output_image_1 = None, !.output_image_2 = None]

\* the cancellation at the head of start_mixing_process, cancel_mixing and
\* cleanup_on_exit
cancel_worker(s) ==
    IF s.worker_thread # None /\ is_alive(s.threads[Get(s.worker_thread)])
    THEN [s EXCEPT !.threads[Get(s.worker_thread)] = cancel(@)]
    ELSE s

\* a validation that turns every submit down
validate_refuses(images, weights, selections) == "no_images"

\* a validation that accepts everything
validate_accepts(images, weights, selections) == "ok"

\* the input validation of start_mixing_process: "ok" or the reason it returns
validate(images, weights, selections) ==
    IF ~any_loaded(images) THEN "no_images"
    ELSE IF \E i \in Slots : /\ images[i] # None
                             /\ weights[i] > 0
                             /\ selections[i] = "Select Mode"
         THEN "no_component"
    ELSE IF ~(\E i \in Slots : images[i] # None /\ weights[i] > 0)
         THEN "no_weights"
    ELSE "ok"

start_mixing_process(s) ==
    LET s1 == cancel_worker(s)
        v == validate(s1.raw_images, s1.current_weights, s1.component_selectors)
    IN  CASE v = "no_images" ->
               [s1 EXCEPT !.status_label = "Load at least one image."]
          [] v = "no_component" ->
               [s1 EXCEPT !.status_label = "Error: Select a component"]
          [] v = "no_weights" ->
               clear_mixed_output(
                 [s1 EXCEPT !.status_label =
                               "Set non-zero weights for loaded images."])
          [] OTHER ->
               [s1 EXCEPT !.status_label = "Mixing...",
                          !.progress_bar = 0,
                          !.threads = Append(@, MixingThread),
                          !.worker_thread = Some(Len(s1.threads) + 1)]

full_update_cycle(s, trigger_mixing) ==
    IF ~any_loaded(s.raw_images)
    THEN [s EXCEPT !.min_width = None, !.min_height = None]
    ELSE LET p == process_input_images(s.raw_images, s)
             s1 == [s EXCEPT !.min_height = p.min_height,
                             !.min_width = p.min_width]
             s2 == IF /\ s1.min_width # None
                      /\ s1.selector_region[1] = 0
                      /\ s1.selector_region[2] = 0
                   THEN set_region_size(s1, s1.region_size_slider)
                   ELSE s1
         IN  IF trigger_mixing THEN start_mixing_process(s2) ELSE s2

load_image(s, index, gray_image) ==
    full_update_cycle(
      reset_adjustments([s EXCEPT !.raw_images[index] = Some(gray_image)],
                        index),
      TRUE)

clear_image(s, index) ==
    LET s1 == reset_adjustments(
                [s EXCEPT !.raw_images[index] = None,
                          !.current_weights[index] = 0],
                index)
    IN  IF ~any_loaded(s1.raw_images)
        THEN [clear_mixed_output(s1) EXCEPT
                 !.status_label = "All viewports cleared.",
                 !.min_width = None,
                 !.min_height = None]
        ELSE [full_update_cycle(s1, TRUE) EXCEPT
                 !.status_label = "Viewport cleared."]

update_weight(s, value, index) ==
    full_update_cycle([s EXCEPT !.current_weights[index] = value], TRUE)

\* mouse_move_event on the label that was pressed, left button held, the
\* pointer having moved by dx, dy pixels since the last event
mouse_move_event(s, index, dy, dx) ==
    LET new_b == s.brightness[index] + dy
        new_c == s.contrast[index] + dx
    IN  full_update_cycle(
          set_contrast(set_brightness(s, index, new_b), index, new_c),
          FALSE)

handle_ft_mode_change(s, selection) ==
    full_update_cycle(
      [s EXCEPT !.ft_mode = selection,
                !.component_selectors =
                    [i \in Slots |-> get_component_options(selection)[1]]],
      TRUE)

handle_region_mode_change(s, selection) ==
    full_update_cycle([s EXCEPT !.region_mode = set_region_mode(selection)],
                      TRUE)

handle_region_size_change(s, value) ==
    LET s1 == [s EXCEPT !.region_size_slider = value]
    IN  IF any_loaded(s1.raw_images)
        THEN IF set_region_size_ok(s1)
             THEN full_update_cycle(set_region_size(s1, value), FALSE)
             ELSE s1
        ELSE [s1 EXCEPT !.status_label =
                           "Load an image before changing region size."]

handle_component_selection(s, index, selection) ==
    full_update_cycle([s EXCEPT !.component_selectors[index] = selection],
                      TRUE)

cancel_mixing(s) ==
    IF s.worker_thread # None /\ is_alive(s.threads[Get(s.worker_thread)])
    THEN cancel_worker(s)
    ELSE [s EXCEPT !.status_label = "No active mixing job."]

on_mixing_finished(s, mixed_image) ==
    IF s.output_selector = "Output 1"
    THEN [s EXCEPT !.output_image_1 = Some(mixed_image),
                   !.status_label = "Mixing Complete"]
    ELSE [s EXCEPT !.output_image_2 = Some(mixed_image),
                   !.status_label = "Mixing Complete"]

on_mixing_progress(s, value) == [s EXCEPT !.progress_bar = value]

on_mixing_error(s) ==
    clear_mixed_output([s EXCEPT !.status_label = "Error"])

on_mixing_canceled(s) ==
    clear_mixed_output([s EXCEPT !.status_label = "Mixing Canceled",
                                 !.progress_bar = 0])

-----------------------------------------------------------------------------
(* The state record the handlers work on, and the initial state *)

Self ==
    [raw_images |-> raw_images, current_weights |-> current_weights,
     brightness |-> brightness, contrast |-> contrast,
     min_height |-> min_height, min_width |-> min_width,
     selector_region |-> selector_region, ft_mode |-> ft_mode,
     region_mode |-> region_mode,
     component_selectors |-> component_selectors,
     region_size_slider |-> region_size_slider,
     output_selector |-> output_selector,
     output_image_1 |-> output_image_1, output_image_2 |-> output_image_2,
     status_label |-> status_label, progress_bar |-> progress_bar,
     worker_thread |-> worker_thread, threads |-> threads]

Become(s) ==
    /\ raw_images' = s.raw_images
    /\ current_weights' = s.current_weights
    /\ brightness' = s.brightness
    /\ contrast' = s.contrast
    /\ min_height' = s.min_height
    /\ min_width' = s.min_width
    /\ selector_region' = s.selector_region
    /\ ft_mode' = s.ft_mode
    /\ region_mode' = s.region_mode
    /\ component_selectors' = s.component_selectors
    /\ region_size_slider' = s.region_size_slider
    /\ output_selector' = s.output_selector
    /\ output_image_1' = s.output_image_1
    /\ output_image_2' = s.output_image_2
    /\ status_label' = s.status_label
    /\ progress_bar' = s.progress_bar
    /\ worker_thread' = s.worker_thread
    /\ threads' = s.threads

\* ApplicationLogic.__init__ and MainWindow.__init__
Constructed ==
    [raw_images |-> [i \in Slots |-> None],
     current_weights |-> [i \in Slots |-> 0],
     brightness |-> [i \in Slots |-> 0],
     contrast |-> [i \in Slots |-> 100],
     min_height |-> None, min_width |-> None,
     selector_region |-> <<0, 0, 200, 200>>,
     ft_mode |-> "Magnitude / Phase",
     region_mode |-> "None",
     component_selectors |-> [i \in Slots |-> "Select Mode"],
     region_size_slider |-> 200,
     output_selector |-> "Output 1",
     output_image_1 |-> None, output_image_2 |-> None,
     status_label |-> "Ready", progress_bar |-> 0,
     worker_thread |-> None, threads |-> << >>]

\* ApplicationLogic.set_ui, with the selectors at their default selection
set_ui(s) ==
    [handle_ft_mode_change(s, "Magnitude / Phase") EXCEPT
        !.region_mode = set_region_mode("Inner (Low Freq)")]

Starts(s) ==
    /\ raw_images = s.raw_images
    /\ current_weights = s.current_weights
    /\ brightness = s.brightness
    /\ contrast = s.contrast
    /\ min_height = s.min_height
    /\ min_width = s.min_width
    /\ selector_region = s.selector_region
    /\ ft_mode = s.ft_mode
    /\ region_mode = s.region_mode
    /\ component_selectors = s.component_selectors
    /\ region_size_slider = s.region_size_slider
    /\ output_selector = s.output_selector
    /\ output_image_1 = s.output_image_1
    /\ output_image_2 = s.output_image_2
    /\ status_label = s.status_label
    /\ progress_bar = s.progress_bar
    /\ worker_thread = s.worker_thread
    /\ threads = s.threads

Init ==
    /\ Starts(set_ui(Constructed))
    /\ queue = << >>
    /\ emitted = << >>
    /\ submitted = << >>
    /\ superseded = {}
    /\ delivered = << >>
    /\ user_ops = 0
    /\ call = None

-----------------------------------------------------------------------------
(* GUI-thread actions *)

\* what mix_images returns for the inputs as they are in s
mix_of(s) ==
    mix_images(process_input_images(s.raw_images, s).processed_images,
               s.current_weights, s.component_selectors, s.selector_region,
               s.min_height, s.min_width, s.region_mode).image

\* A handler leaves state s; the histories record a job it started.
CanAct == user_ops < MaxUserOps

Gui(s) ==
    /\ user_ops' = user_ops + 1
    /\ Become(s)
    /\ UNCHANGED <<queue, delivered, call>>
    /\ IF Len(s.threads) > Len(threads)
       THEN /\ emitted' = Append(emitted, << >>)
            /\ submitted' = Append(submitted, mix_of(s))
            /\ superseded' = superseded \cup
                 {j \in 1 .. Len(threads) : is_alive(threads[j])}
       ELSE UNCHANGED <<emitted, submitted, superseded>>

LoadImage ==
    \E index \in UsedSlots, gray_image \in RasterFiles :
        /\ CanAct
        /\ Gui(load_image(Self, index, gray_image))

ClearImage ==
    \E index \in UsedSlots :
        /\ CanAct
        /\ Gui(clear_image(Self, index))

UpdateWeight ==
    \E index \in UsedSlots, value \in WeightValues :
        /\ CanAct
        /\ Gui(update_weight(Self, value, index))

HandleFtModeChange ==
    \E selection \in FtModes \ {ft_mode} :
        /\ CanAct
        /\ Gui(handle_ft_mode_change(Self, selection))

HandleRegionModeChange ==
    \E selection \in RegionModeItems :
        /\ CanAct
        /\ set_region_mode(selection) # region_mode
        /\ Gui(handle_region_mode_change(Self, selection))

HandleRegionSizeChange ==
    \E value \in SizeValues \ {region_size_slider} :
        /\ CanAct
        /\ Gui(handle_region_size_change(Self, value))

RegionSliderReleased ==
    /\ CanAct
    /\ Gui(full_update_cycle(Self, TRUE))

HandleComponentSelection ==
    \E index \in UsedSlots :
        \E n \in 1 .. Len(get_component_options(ft_mode)) :
            /\ CanAct
            /\ get_component_options(ft_mode)[n] # component_selectors[index]
            /\ Gui(handle_component_selection(
                     Self, index, get_component_options(ft_mode)[n]))

StartMixingProcess ==
    /\ CanAct
    /\ Gui(start_mixing_process(Self))

CancelMixing ==
    /\ CanAct
    /\ Gui(cancel_mixing(Self))

SelectOutput ==
    \E selection \in {"Output 1", "Output 2"} \ {output_selector} :
        /\ CanAct
        /\ Gui([Self EXCEPT !.output_selector = selection])

\* The GUI event loop handles the oldest queued signal.
Deliver ==
    /\ queue # << >>
    /\ LET e == Head(queue)
       IN  /\ Become(CASE e.signal = "finished" ->
                            on_mixing_finished(Self,
                                [job |-> e.job, image |-> e.arg])
                       [] e.signal = "progress" ->
                            on_mixing_progress(Self, e.arg)
                       [] e.signal = "error" -> on_mixing_error(Self)
                       [] OTHER -> on_mixing_canceled(Self))
           /\ delivered' = IF e.signal = "progress" THEN delivered
                           ELSE Append(delivered, <<e.job, e.signal>>)
    /\ queue' = Tail(queue)
    /\ UNCHANGED <<emitted, submitted, superseded, user_ops, call>>

-----------------------------------------------------------------------------
(* Worker-thread actions: MixingThread.run of job j *)

Jobs == 1 .. Len(threads)

\* self.signals.<signal>.emit(arg) from job j: a queued connection
\* (the job field is history: the signal carries arg only and no handler
\* reads it)
Emit(j, signal, arg) ==
    /\ queue' = Append(queue, [job |-> j, signal |-> signal, arg |-> arg])
    /\ emitted' = [emitted EXCEPT ![j] =
                     Append(@, <<signal, IF signal = "progress" THEN arg ELSE 0>>)]

WorkerFrame ==
    UNCHANGED <<raw_images, current_weights, brightness, contrast,
                selector_region, ft_mode, region_mode, component_selectors,
                region_size_slider, output_selector, output_image_1,
                output_image_2, status_label, progress_bar, worker_thread,
                submitted, superseded, delivered, user_ops, call>>

\* line 30: progress.emit(0)
RunStart ==
    \E j \in Jobs :
        /\ threads[j].pc = "run"
        /\ Emit(j, "progress", 0)
        /\ threads' = [threads EXCEPT ![j].pc = "loop"]
        /\ UNCHANGED <<min_height, min_width>>
        /\ WorkerFrame

\* a loop iteration that starts run() over instead of counting up
LoopStepRestarts ==
    \E j \in Jobs :
        /\ threads[j].pc = "loop"
        /\ IF threads[j]._is_canceled
           THEN /\ Emit(j, "canceled", 0)
                /\ threads' = [threads EXCEPT ![j].pc = "done"]
           ELSE /\ Emit(j, "progress", progress_value(threads[j].i))
                /\ threads' = [threads EXCEPT ![j].pc = "run"]
        /\ UNCHANGED <<min_height, min_width>>
        /\ WorkerFrame

\* lines 33-43: one iteration of the checkpoint loop
LoopStep ==
    \E j \in Jobs :
        /\ threads[j].pc = "loop"
        /\ IF threads[j]._is_canceled
           THEN /\ Emit(j, "canceled", 0)
                /\ threads' = [threads EXCEPT ![j].pc = "done"]
           ELSE /\ Emit(j, "progress", progress_value(threads[j].i))
                /\ threads' = [threads EXCEPT
                                 ![j].i = @ + 1,
                                 ![j].pc = IF threads[j].i + 1 < steps
                                           THEN "loop" ELSE "final"]
        /\ UNCHANGED <<min_height, min_width>>
        /\ WorkerFrame

\* line 46: the last look at the flag
FinalCheck ==
    \E j \in Jobs :
        /\ threads[j].pc = "final"
        /\ threads' = [threads EXCEPT ![j].pc =
                         IF threads[j]._is_canceled THEN "done" ELSE "process"]
        /\ UNCHANGED <<queue, emitted, min_height, min_width>>
        /\ WorkerFrame

\* execute_mixing_core, line 105: process_input_images on the live slots
CoreProcess ==
    \E j \in Jobs :
        /\ threads[j].pc = "process"
        /\ LET p == process_input_images(raw_images, Self)
           IN  /\ min_height' = p.min_height
               /\ min_width' = p.min_width
               /\ threads' = [threads EXCEPT
                                ![j].processed_images = Some(p.processed_images),
                                ![j].pc = "read_selection"]
        /\ UNCHANGED <<queue, emitted>>
        /\ WorkerFrame

\* execute_mixing_core, line 107: one iteration of the list comprehension,
\* selector.get_selection() of the next selector
CoreReadSelection ==
    \E j \in Jobs :
        /\ threads[j].pc = "read_selection"
        /\ LET got == IF threads[j].component_selections = None
                      THEN << >>
                      ELSE Get(threads[j].component_selections)
               k == Len(got)
           IN  threads' = [threads EXCEPT
                             ![j].component_selections =
                                 Some(Append(got, component_selectors[k])),
                             ![j].pc = IF k + 1 < NumSlots
                                       THEN "read_selection" ELSE "read"]
        /\ UNCHANGED <<queue, emitted, min_height, min_width>>
        /\ WorkerFrame

\* execute_mixing_core, lines 108-109: the cached dimensions
CoreRead ==
    \E j \in Jobs :
        /\ threads[j].pc = "read"
        /\ threads' = [threads EXCEPT
                         ![j].min_h = min_height,
                         ![j].min_w = min_width,
                         ![j].pc = "mix"]
        /\ UNCHANGED <<queue, emitted, min_height, min_width>>
        /\ WorkerFrame

\* execute_mixing_core, lines 112-119: mix_images on the live weights,
\* region and region mode; the locals are dead afterwards
CoreMix ==
    \E j \in Jobs :
        /\ threads[j].pc = "mix"
        /\ LET t == threads[j]
               selections == [i \in Slots |->
                                 Get(t.component_selections)[i + 1]]
               r == mix_images(Get(t.processed_images), current_weights,
                               selections, selector_region,
                               t.min_h, t.min_w, region_mode)
           IN  threads' = [threads EXCEPT
                             ![j].processed_images = None,
                             ![j].component_selections = None,
                             ![j].min_h = None,
                             ![j].min_w = None,
                             ![j].result = IF r.raised THEN None
                                           ELSE Some(r.image),
                             ![j].pc = IF r.raised THEN "except" ELSE "emit_100"]
        /\ UNCHANGED <<queue, emitted, min_height, min_width>>
        /\ WorkerFrame

\* line 50: progress.emit(100)
EmitProgress100 ==
    \E j \in Jobs :
        /\ threads[j].pc = "emit_100"
        /\ Emit(j, "progress", 100)
        /\ threads' = [threads EXCEPT ![j].pc = "emit_finished"]
        /\ UNCHANGED <<min_height, min_width>>
        /\ WorkerFrame

\* line 52: finished.emit(result_image)
EmitFinished ==
    \E j \in Jobs :
        /\ threads[j].pc = "emit_finished"
        /\ Emit(j, "finished", Get(threads[j].result))
        /\ threads' = [threads EXCEPT ![j].pc = "done", ![j].result = None]
        /\ UNCHANGED <<min_height, min_width>>
        /\ WorkerFrame

\* line 56: error.emit(...)
EmitError ==
    \E j \in Jobs :
        /\ threads[j].pc = "except"
        /\ Emit(j, "error", 0)
        /\ threads' = [threads EXCEPT ![j].pc = "reset"]
        /\ UNCHANGED <<min_height, min_width>>
        /\ WorkerFrame

\* line 58: progress.emit(0)
EmitReset ==
    \E j \in Jobs :
        /\ threads[j].pc = "reset"
        /\ Emit(j, "progress", 0)
        /\ threads' = [threads EXCEPT ![j].pc = "done"]
        /\ UNCHANGED <<min_height, min_width>>
        /\ WorkerFrame

-----------------------------------------------------------------------------

Next ==
    \/ LoadImage
    \/ ClearImage
    \/ UpdateWeight
    \/ HandleFtModeChange
    \/ HandleRegionModeChange
    \/ HandleRegionSizeChange
    \/ RegionSliderReleased
    \/ HandleComponentSelection
    \/ StartMixingProcess
    \/ CancelMixing
    \/ SelectOutput
    \/ Deliver
    \/ RunStart
    \/ LoopStep
    \/ FinalCheck
    \/ CoreProcess
    \/ CoreReadSelection
    \/ CoreRead
    \/ CoreMix
    \/ EmitProgress100
    \/ EmitFinished
    \/ EmitError
    \/ EmitReset

Spec == Init /\ [][Next]_vars

-----------------------------------------------------------------------------
(* Runs that start after a first job has ended.  Each initial state is the  *)
(* state the program is in after the operator actions named, with the       *)
(* worker's events all handled; the run is then given MaxSettledOps further *)
(* operator actions.                                                        *)

MaxSettledOps == 2

RasterA == CHOOSE r \in RasterFiles : r.name = "A"
RasterB == CHOOSE r \in RasterFiles : r.name = "B"

\* a MixingThread whose run() has returned after i loop iterations
Returned(i, canceled) ==
    [MixingThread EXCEPT !.pc = "done", !.i = i, !._is_canceled = canceled]

\* the progress events of a run that went through the whole loop
LoopLog ==
    <<<<"progress", 0>>>> \o [i \in 1 .. steps |-> <<"progress", progress_value(i - 1)>>]

\* load A in slot 0, release its weight slider at 50: job 1 is started
Job1Started == update_weight(load_image(set_ui(Constructed), 0, RasterA), 50, 0)

\* ... and job 1 ran to the end: its result is on display
ShownState ==
    on_mixing_finished(
      on_mixing_progress([Job1Started EXCEPT !.threads[1] = Returned(steps, FALSE)],
                         100),
      [job |-> 1, image |-> mix_of(Job1Started)])

SettledShown ==
    /\ Starts(ShownState)
    /\ queue = << >>
    /\ emitted = <<LoopLog \o <<<<"progress", 100>>, <<"finished", 0>>>>>>
    /\ submitted = <<mix_of(Job1Started)>>
    /\ superseded = {}
    /\ delivered = <<<<1, "finished">>>>

\* ... or the slider was released at 0 before job 1 entered its loop: the
\* submit is turned down and job 1 ends with canceled
CanceledState ==
    on_mixing_canceled(
      on_mixing_progress(
        [update_weight(Job1Started, 0, 0) EXCEPT !.threads[1] = Returned(0, TRUE)],
        0))

SettledCanceled ==
    /\ Starts(CanceledState)
    /\ queue = << >>
    /\ emitted = <<<<<<"progress", 0>>, <<"canceled", 0>>>>>>
    /\ submitted = <<mix_of(Job1Started)>>
    /\ superseded = {}
    /\ delivered = <<<<1, "canceled">>>>

\* ... or B was loaded in slot 1 while job 1 was between process_input_images
\* and its read of the cached dimensions: job 1 ends with error, job 2 (the
\* submit made by the load) runs to the end
Job2Started == load_image(Job1Started, 1, RasterB)

FailedState ==
    on_mixing_finished(
      on_mixing_progress(
        on_mixing_error(
          [Job2Started EXCEPT !.threads[1] = Returned(steps, TRUE),
                              !.threads[2] = Returned(steps, FALSE)]),
        100),
      [job |-> 2, image |-> mix_of(Job2Started)])

SettledFailed ==
    /\ Starts(FailedState)
    /\ queue = << >>
    /\ emitted = <<LoopLog \o <<<<"error", 0>>, <<"progress", 0>>>>,
                   LoopLog \o <<<<"progress", 100>>, <<"finished", 0>>>>>>
    /\ submitted = <<mix_of(Job1Started), mix_of(Job2Started)>>
    /\ superseded = {1}
    /\ delivered = <<<<1, "error">>, <<2, "finished">>>>

InitSettled ==
    /\ \/ SettledShown
       \/ SettledCanceled
       \/ SettledFailed
    /\ user_ops = MaxUserOps - MaxSettledOps
    /\ call = None

SpecSettled == InitSettled /\ [][Next]_vars

-----------------------------------------------------------------------------
(* Runs of the workers under fair scheduling.  The initial state is the one *)
(* in which the first job has just been started (a raster loaded in slot 0, *)
(* its weight slider released at 50); the operator has MaxRunOps further    *)
(* actions, and every live thread is scheduled again and again.             *)

MaxRunOps == 1

InitRun ==
    /\ Starts(Job1Started)
    /\ queue = << >>
    /\ emitted = << << >> >>
    /\ submitted = <<mix_of(Job1Started)>>
    /\ superseded = {}
    /\ delivered = << >>
    /\ user_ops = MaxUserOps - MaxRunOps
    /\ call = None

\* a step of MixingThread.run
WorkerNext ==
    \/ RunStart
    \/ LoopStep
    \/ FinalCheck
    \/ CoreProcess
    \/ CoreReadSelection
    \/ CoreRead
    \/ CoreMix
    \/ EmitProgress100
    \/ EmitFinished
    \/ EmitError
    \/ EmitReset

\* a step of the run() of job j
WorkerStep(j) ==
    /\ j <= Len(threads)
    /\ WorkerNext
    /\ threads'[j] # threads[j]

\* the operating system schedules every thread that can run
FairScheduling == \A j \in 1 .. (MaxUserOps + 1) : WF_vars(WorkerStep(j))

SpecRun == InitRun /\ [][Next]_vars /\ FairScheduling

-----------------------------------------------------------------------------
(* The core objects driven on their own: a caller invokes the methods of    *)
(* ImageProcessor, FFTAnalyzer and Mixer directly, in any order and with    *)
(* any argument of the input sets below, and drags on the input labels (the *)
(* handler that feeds set_brightness and set_contrast).  call records the   *)
(* last invocation; the calls are counted against the bound like operator   *)
(* actions.                                                                 *)

ImageLists ==
    {images \in [Slots -> {None} \cup {Some(r) : r \in RasterFiles}] :
        \A i \in Slots \ UsedSlots : images[i] = None}
BrightnessValues == {-50, 0, 300}
ContrastValues == {-50, 50, 100, 150}      \* hundredths
PixelValues == {0, 5, 10, 200, 255}
Drags == {<<-40, -120>>, <<300, 20>>}      \* <<dy, dx>> in pixels
RegionSizes == SizeValues \cup {30}
MaskGrids == {<<2, 3>>, <<3, 3>>}           \* <<height, width>>
MaskRegions == {<<x, y, w, h>> : x \in {-1, 0, 2}, y \in {-1, 0, 2},
                                 w \in {1, 3}, h \in {1, 3}}

\* a spectrum with distinct non-zero elements of both signs
Spectrum(height, width) ==
    [p \in Grid(height, width) |->
        (p[1] * width + p[2] + 1) * (IF (p[1] + p[2]) % 2 = 0 THEN 1 ELSE -1)]

CoreFrame ==
    /\ user_ops' = user_ops + 1
    /\ UNCHANGED <<raw_images, current_weights, ft_mode, component_selectors,
                   region_size_slider, output_selector, output_image_1,
                   output_image_2, status_label, progress_bar, worker_thread,
                   threads, queue, emitted, submitted, superseded, delivered>>

ProcessInputImagesCall ==
    \E images \in ImageLists :
        LET p == process_input_images(images, Self)
        IN  /\ CanAct
            /\ min_height' = p.min_height
            /\ min_width' = p.min_width
            /\ call' = Some([op |-> "process_input_images",
                             images |-> images,
                             before |-> <<min_height, min_width>>,
                             ret |-> p.processed_images])
            /\ UNCHANGED <<brightness, contrast, selector_region, region_mode>>
            /\ CoreFrame

SetBrightnessCall ==
    \E index \in UsedSlots, value \in BrightnessValues :
        /\ CanAct
        /\ brightness' = set_brightness(Self, index, value).brightness
        /\ call' = Some([op |-> "set_brightness", index |-> index,
                         value |-> value])
        /\ UNCHANGED <<contrast, min_height, min_width, selector_region,
                       region_mode>>
        /\ CoreFrame

SetContrastCall ==
    \E index \in UsedSlots, value \in ContrastValues :
        /\ CanAct
        /\ contrast' = set_contrast(Self, index, value).contrast
        /\ call' = Some([op |-> "set_contrast", index |-> index,
                         value |-> value])
        /\ UNCHANGED <<brightness, min_height, min_width, selector_region,
                       region_mode>>
        /\ CoreFrame

ResetAdjustmentsCall ==
    \E index \in UsedSlots :
        /\ CanAct
        /\ brightness' = reset_adjustments(Self, index).brightness
        /\ contrast' = reset_adjustments(Self, index).contrast
        /\ call' = Some([op |-> "reset_adjustments", index |-> index])
        /\ UNCHANGED <<min_height, min_width, selector_region, region_mode>>
        /\ CoreFrame

\* a drag on an input label: the handler computes the new values from the
\* stored ones and passes them to set_brightness and set_contrast
MouseMoveEvent ==
    \E index \in UsedSlots, drag \in Drags :
        LET s == mouse_move_event(Self, index, drag[1], drag[2])
        IN  /\ CanAct
            /\ brightness' = s.brightness
            /\ contrast' = s.contrast
            /\ min_height' = s.min_height
            /\ min_width' = s.min_width
            /\ selector_region' = s.selector_region
            /\ call' = Some([op |-> "mouse_move_event", index |-> index,
                             dy |-> drag[1], dx |-> drag[2],
                             before |-> <<brightness[index], contrast[index]>>])
            /\ UNCHANGED region_mode
            /\ CoreFrame

\* the intensity transform process_input_images applies to slot index, on
\* one pixel
ConvertScaleAbsCall ==
    \E index \in UsedSlots, src \in PixelValues :
        /\ CanAct
        /\ call' = Some([op |-> "convertScaleAbs", src |-> src,
                         alpha |-> contrast[index],
                         beta |-> brightness[index],
                         ret |-> convertScaleAbs(src, contrast[index],
                                                 brightness[index])])
        /\ UNCHANGED <<brightness, contrast, min_height, min_width,
                       selector_region, region_mode>>
        /\ CoreFrame

SetRegionSizeCall ==
    \E size \in RegionSizes :
        /\ CanAct
        /\ selector_region' = set_region_size(Self, size).selector_region
        /\ call' = Some([op |-> "set_region_size", size |-> size,
                         before |-> selector_region,
                         ret |-> set_region_size_ok(Self)])
        /\ UNCHANGED <<brightness, contrast, min_height, min_width,
                       region_mode>>
        /\ CoreFrame

SetRegionModeCall ==
    \E mode \in RegionModeItems :
        /\ CanAct
        /\ region_mode' = set_region_mode(mode)
        /\ call' = Some([op |-> "set_region_mode", mode |-> mode])
        /\ UNCHANGED <<brightness, contrast, min_height, min_width,
                       selector_region>>
        /\ CoreFrame

ApplyRegionMaskCall ==
    \E g \in MaskGrids, region \in MaskRegions :
        /\ CanAct
        /\ call' = Some([op |-> "apply_region_mask",
                         ft_data |-> Spectrum(g[1], g[2]),
                         selector_region |-> region,
                         height |-> g[1], width |-> g[2],
                         mode |-> region_mode,
                         clamped |-> apply_region_mask(region_mode, region,
                                                       g[1], g[2]),
                         ret |-> masked(Spectrum(g[1], g[2]),
                                        region_mask(region_mode, region,
                                                    g[1], g[2]))])
        /\ UNCHANGED <<brightness, contrast, min_height, min_width,
                       selector_region, region_mode>>
        /\ CoreFrame

NextCore ==
    \/ ProcessInputImagesCall
    \/ SetBrightnessCall
    \/ SetContrastCall
    \/ ResetAdjustmentsCall
    \/ MouseMoveEvent
    \/ ConvertScaleAbsCall
    \/ SetRegionSizeCall
    \/ SetRegionModeCall
    \/ ApplyRegionMaskCall

SpecCore == Init /\ [][NextCore]_vars

\* the last direct call was of method op
Called(op) == call # None /\ Get(call).op = op

-----------------------------------------------------------------------------
(* The Mixer driven on its own: a caller sets the region mode and calls     *)
(* mix_images with arguments of its choice.                                 *)

MixWeights ==
    {weights \in [Slots -> WeightValues] :
        \A i \in Slots \ UsedSlots : weights[i] = 0}
MixSelections == {"Select Mode", "FT Phase", "FT Real"}
MixImageLists ==
    {images \in ImageLists :
        /\ images[0] \in {None, Some(RasterA)}
        /\ images[1] \in {None, Some(RasterB)}}
MixRegions == {<<150, 100, 100, 100>>, <<0, -50, 400, 400>>}
MixFrames == {<<None, None>>, <<Some(300), None>>, <<None, Some(400)>>,
              <<Some(300), Some(400)>>, <<Some(250), Some(400)>>}

\* mix_images(images, weights, component_selections, selector_region,
\* min_height, min_width), the images being a list process_input_images
\* has returned
MixImagesCall ==
    \E images \in MixImageLists, weights \in MixWeights,
       selected \in MixSelections, region \in MixRegions,
       frame \in MixFrames :
        LET processed == process_input_images(images, Self).processed_images
            selections == [i \in Slots |-> selected]
            r == mix_images(processed, weights, selections, region,
                            frame[1], frame[2], region_mode)
        IN  /\ CanAct
            /\ call' = Some([op |-> "mix_images",
                             images |-> processed,
                             weights |-> weights,
                             component_selections |-> selections,
                             selector_region |-> region,
                             min_height |-> frame[1],
                             min_width |-> frame[2],
                             raised |-> r.raised,
                             ret |-> r.image])
            /\ UNCHANGED <<brightness, contrast, min_height, min_width,
                           selector_region, region_mode>>
            /\ CoreFrame

\* the shifted transforms of the rasters of slots 0 and 1, on a 1 x 2 frame
FtA == [p \in Grid(1, 2) |-> IF p[2] = 0 THEN <<3, 4>> ELSE <<0, 0>>]
FtB == [p \in Grid(1, 2) |-> IF p[2] = 0 THEN <<-8, 6>> ELSE <<0, -5>>]
FtLists ==
    {fts \in [Slots -> {None, Some(FtA), Some(FtB)}] :
        /\ fts[0] \in {None, Some(FtA)}
        /\ fts[1] \in {None, Some(FtB)}
        /\ \A i \in Slots \ UsedSlots : fts[i] = None}
AccWeightValues == {0, 30, 100}           \* percent
AccWeights ==
    {weights \in [Slots -> AccWeightValues] :
        /\ weights[1] # 100
        /\ \A i \in Slots \ UsedSlots : weights[i] = 0}
AccSelections ==
    {selections \in [Slots -> {"FT Magnitude", "FT Phase", "FT Real",
                               "FT Imaginary"}] :
        /\ selections[1] \in {"FT Magnitude", "FT Imaginary"}
        /\ \A i \in Slots \ UsedSlots : selections[i] = "FT Magnitude"}
AccRegion == <<0, 0, 1, 1>>

\* mix_images up to the end of its loop, on a 1 x 2 frame: the accumulator
\* combined_ft before the inverse transform and the normalisation
CombinedFtCall ==
    \E fts \in FtLists, weights \in AccWeights, selections \in AccSelections :
        /\ CanAct
        /\ call' = Some([op |-> "combined_ft",
                         ft_images |-> fts,
                         weights |-> weights,
                         component_selections |-> selections,
                         mode |-> region_mode,
                         ret |-> combined_ft(fts, weights, selections,
                                             AccRegion, 1, 2, region_mode)])
        /\ UNCHANGED <<brightness, contrast, min_height, min_width,
                       selector_region, region_mode>>
        /\ CoreFrame

NextMixer ==
    \/ SetRegionModeCall
    \/ MixImagesCall
    \/ CombinedFtCall

SpecMixer == Init /\ [][NextMixer]_vars

-----------------------------------------------------------------------------
(* Vocabulary of the properties *)

Terminals == {"finished", "canceled", "error"}
IsTerminal(e) == e[1] \in Terminals
Alive == {j \in Jobs : is_alive(threads[j])}
Done(j) == threads[j].pc = "done"
Emitted(j, signal) == \E a \in 1 .. Len(emitted[j]) : emitted[j][a][1] = signal

\* a step of a handler that reaches start_mixing_process
SubmitStep ==
    \/ StartMixingProcess
    \/ /\ any_loaded(raw_images')
       /\ \/ LoadImage
          \/ ClearImage
          \/ UpdateWeight
          \/ HandleFtModeChange
          \/ HandleRegionModeChange
          \/ RegionSliderReleased
          \/ HandleComponentSelection

-----------------------------------------------------------------------------
(* C1 *)

\* C1 as stated: at every moment at most one worker thread is alive and not
\* yet finished.
C1_AtMostOneAlive == Cardinality(Alive) <= 1

\* C1 amended: every live worker other than the newest one (worker_thread)
\* has its cancellation flag set, so at most one live worker is uncancelled.
C1_OnlyNewestUncancelled ==
    /\ \A j \in Alive : ~threads[j]._is_canceled => worker_thread = Some(j)
    /\ Cardinality({j \in Alive : ~threads[j]._is_canceled}) <= 1

\* A superseded worker is still unwinding next to the live worker that
\* replaced it.
C1_Witness ==
    \E j, k \in Alive :
        /\ j < k
        /\ threads[j]._is_canceled
        /\ ~threads[k]._is_canceled

-----------------------------------------------------------------------------
(* C2 *)

\* C2: a job that was still running when a newer job was started never
\* delivers finished to the caller.
C2_SupersededNeverCompletes ==
    \A j \in superseded :
        \A k \in 1 .. Len(delivered) : delivered[k] # <<j, "finished">>

-----------------------------------------------------------------------------
(* C3 *)

\* C3: a job whose run() has returned has emitted exactly one terminal event.
C3_ExactlyOneTerminal ==
    \A j \in Jobs : Done(j) => Len(SelectSeq(emitted[j], IsTerminal)) = 1

-----------------------------------------------------------------------------
(* C4 *)

-----------------------------------------------------------------------------
(* C5 *)

\* C5: a finished job that emitted progress(100) ended with finished.
C5_HundredOnlyOnSuccess ==
    \A j \in Jobs :
        (Done(j) /\ \E a \in 1 .. Len(emitted[j]) :
                        emitted[j][a] = <<"progress", 100>>)
            => Emitted(j, "finished")

-----------------------------------------------------------------------------
(* C6 *)

\* C6: no event is handled by the caller after the terminal event of a newer
\* job has been handled (the signals carry no job identity to filter on).
C6_NoStaleEvents ==
    [][ (queue # << >> /\ queue' = Tail(queue)) =>
            \A k \in 1 .. Len(delivered) : delivered[k][1] <= Head(queue).job
      ]_vars

-----------------------------------------------------------------------------
(* C7 *)

\* C7: the image a job computes is the mix of the inputs as they were when
\* the job was submitted.
C7_CopyOnSubmit ==
    \A j \in Jobs :
        threads[j].result # None => Get(threads[j].result) = submitted[j]

-----------------------------------------------------------------------------
(* C8 *)

ValidInputs(images, weights, selections) ==
    /\ \E i \in Slots : images[i] # None
    /\ \A i \in Slots : weights[i] > 0 => selections[i] # "Select Mode"

\* C8: a step creates a worker only if a slot is loaded and every weighted
\* slot has a component selected; a submit on other inputs creates none.
C8_ValidationPrecondition ==
    [][ /\ Len(threads') > Len(threads) =>
              ValidInputs(raw_images', current_weights', component_selectors')
        /\ (SubmitStep /\ ~ValidInputs(raw_images', current_weights',
                                       component_selectors'))
              => Len(threads') = Len(threads)
      ]_vars

\* A submit on valid inputs has just started a job.
C8_Witness ==
    /\ status_label = "Mixing..."
    /\ Len(threads) = 1
    /\ threads[1].pc = "run"
    /\ ValidInputs(raw_images, current_weights, component_selectors)

-----------------------------------------------------------------------------
(* C9 *)

AllLoadedWeightless(images, weights) ==
    /\ \E i \in Slots : images[i] # None
    /\ \A i \in Slots : images[i] # None => weights[i] = 0

\* C9: a submit with a slot loaded and every loaded slot at weight 0 starts
\* no job and leaves both outputs cleared.
C9_ScenarioD ==
    [][ (SubmitStep /\ AllLoadedWeightless(raw_images', current_weights'))
            => /\ Len(threads') = Len(threads)
               /\ output_image_1' = None
               /\ output_image_2' = None
      ]_vars

\* A result had been displayed and a submit with all weights 0 cleared it.
C9_Witness ==
    /\ status_label = "Set non-zero weights for loaded images."
    /\ \E k \in 1 .. Len(delivered) : delivered[k][2] = "finished"
    /\ queue = << >>
    /\ AllLoadedWeightless(raw_images, current_weights)
    /\ output_image_1 = None
    /\ output_image_2 = None

-----------------------------------------------------------------------------
(* C10 *)

\* C10: a submit that starts no job leaves the workers as they were.
C10_FailedSubmitChangesNothing ==
    [][ (SubmitStep /\ Len(threads') = Len(threads))
            => (threads' = threads /\ worker_thread' = worker_thread)
      ]_vars

-----------------------------------------------------------------------------
(* C11 *)

\* inputs a submit must accept: a loaded slot carries weight, and every loaded
\* slot that carries weight has a component selected
MixableInputs(images, weights, selections) ==
    /\ \E i \in Slots : images[i] # None /\ weights[i] > 0
    /\ \A i \in Slots : (images[i] # None /\ weights[i] > 0)
                            => selections[i] # "Select Mode"

\* C11: whatever the earlier jobs ended with (finished, error, canceled), a
\* submit on mixable inputs starts a fresh, uncancelled worker and makes it
\* the current one.
C11_NextSubmitStarts ==
    [][ (SubmitStep /\ MixableInputs(raw_images', current_weights',
                                     component_selectors'))
            => /\ Len(threads') = Len(threads) + 1
               /\ threads'[Len(threads')].pc = "run"
               /\ ~threads'[Len(threads')]._is_canceled
               /\ worker_thread' = Some(Len(threads'))
      ]_vars

\* Job 1 had ended with error; job 3, submitted afterwards, has delivered
\* its result and it is on display.
C11_Witness ==
    /\ Len(delivered) >= 3
    /\ delivered[1] = <<1, "error">>
    /\ delivered[Len(delivered)] = <<3, "finished">>
    /\ \/ output_image_1 # None /\ Get(output_image_1).job = 3
       \/ output_image_2 # None /\ Get(output_image_2).job = 3

-----------------------------------------------------------------------------
(* C12 *)

\* job j has ended without finished (error, canceled, or no terminal event
\* at all) and the caller has handled everything it emitted
EndedUnfinished(j) ==
    /\ Done(j)
    /\ ~Emitted(j, "finished")
    /\ \A k \in 1 .. Len(queue) : queue[k].job # j

\* C12: once a job has ended Failed or Cancelled, no output shows a result
\* that was displayed before it (the result of an older job).
C12_NoStaleResult ==
    \A j \in Jobs :
        EndedUnfinished(j) =>
            /\ output_image_1 # None => Get(output_image_1).job > j
            /\ output_image_2 # None => Get(output_image_2).job > j

-----------------------------------------------------------------------------
(* C13 *)

\* C13: after process_input_images on a list with a loaded raster, the cached
\* dimensions are the minimum height and the minimum width over the loaded
\* rasters of that list, whatever was cached before; every loaded slot comes
\* back with exactly these dimensions and every empty slot comes back empty.
C13_WorkingFrame ==
    (Called("process_input_images") /\ any_loaded(Get(call).images)) =>
        LET images == Get(call).images
            ret == Get(call).ret
            loaded == {i \in Slots : images[i] # None}
            mh == Min({Get(images[i]).shape[1] : i \in loaded})
            mw == Min({Get(images[i]).shape[2] : i \in loaded})
        IN  /\ min_height = Some(mh)
            /\ min_width = Some(mw)
            /\ \A i \in Slots :
                  IF i \in loaded
                  THEN ret[i] # None /\ Get(ret[i]).shape = <<mh, mw>>
                  ELSE ret[i] = None

\* The call before had left 250 x 400 (from 300 x 400 and 250 x 500); this
\* call, on the 300 x 400 raster alone, has made the frame larger again.
C13_Witness ==
    /\ Called("process_input_images")
    /\ Get(call).before = <<Some(250), Some(400)>>
    /\ min_height = Some(300)
    /\ min_width = Some(400)
    /\ \E i \in Slots : Get(call).ret[i] # None

-----------------------------------------------------------------------------
(* C14 *)

\* C14: after process_input_images on four empty slots, the four outputs are
\* empty and the cached dimensions are None, whatever was cached before.
C14_EmptyNormalize ==
    (Called("process_input_images") /\ ~any_loaded(Get(call).images)) =>
        /\ \A i \in Slots : Get(call).ret[i] = None
        /\ min_height = None
        /\ min_width = None

-----------------------------------------------------------------------------
(* C15 *)

\* C15: the transformed pixel is c * in + b clamped to 0 .. 255: 0 when the
\* value is below 0, 255 when it is above 255, the rounded value otherwise.
C15_PixelClamp ==
    Called("convertScaleAbs") =>
        LET v == Get(call).alpha * Get(call).src + 100 * Get(call).beta
        IN  Get(call).ret = IF v < 0 THEN 0
                            ELSE IF v > 25500 THEN 255
                            ELSE cvRound100(v)

-----------------------------------------------------------------------------
(* C16 *)

\* C16: whenever the cached dimensions are defined, the selector region is a
\* square of side at least 50 that lies inside the frame.
C16_SelectorRegion ==
    (min_height # None /\ min_width # None) =>
        LET x == selector_region[1]
            y == selector_region[2]
            w == selector_region[3]
            h == selector_region[4]
        IN  /\ w = h
            /\ w >= 50
            /\ 0 <= x /\ x <= Get(min_width) - w
            /\ 0 <= y /\ y <= Get(min_height) - h

-----------------------------------------------------------------------------
(* C17 *)

\* C17: a step that establishes the cached dimensions or changes them leaves
\* the selector region centred on the new frame.
C17_Recentred ==
    [][ ( /\ min_height' # None
          /\ min_width' # None
          /\ <<min_height', min_width'>> # <<min_height, min_width>> )
            => /\ selector_region'[1] =
                     (Get(min_width') - selector_region'[3]) \div 2
               /\ selector_region'[2] =
                     (Get(min_height') - selector_region'[4]) \div 2
      ]_vars

-----------------------------------------------------------------------------
(* C18 *)

\* C18: set_region_size(size) with the cached dimensions undefined returns
\* False and leaves the selector region as it was; with them defined it
\* returns True and leaves a square of side max(50, size) centred on the
\* frame.
C18_SetRegionSize ==
    Called("set_region_size") =>
        LET size == Get(call).size
            side == IF size < 50 THEN 50 ELSE size
        IN  IF min_height = None \/ min_width = None
            THEN /\ Get(call).ret = FALSE
                 /\ selector_region = Get(call).before
            ELSE /\ Get(call).ret = TRUE
                 /\ selector_region = <<(Get(min_width) - side) \div 2,
                                        (Get(min_height) - side) \div 2,
                                        side, side>>

\* A size below 50 was asked for on a defined frame and the region, which
\* stood elsewhere, is now the centred square of side 50.
C18_Witness ==
    /\ Called("set_region_size")
    /\ Get(call).size < 50
    /\ Get(call).ret = TRUE
    /\ min_height # None
    /\ selector_region[3] = 50
    /\ selector_region # Get(call).before

-----------------------------------------------------------------------------
(* C19 *)

\* C19: the rectangle a job's mix was masked with lies inside the frame of
\* that mix: 0 <= x <= width - w and 0 <= y <= height - h.
C19_ClampedRegion ==
    \A j \in Jobs :
        (threads[j].result # None /\ Get(threads[j].result).kind = "mixed") =>
            LET r == Get(threads[j].result)
            IN  \A term \in r.terms :
                    term.mask.mode # "None" =>
                        LET x == term.mask.rect[1]
                            y == term.mask.rect[2]
                            w == term.mask.rect[3]
                            h == term.mask.rect[4]
                        IN  /\ 0 <= x /\ x <= r.shape[2] - w
                            /\ 0 <= y /\ y <= r.shape[1] - h

-----------------------------------------------------------------------------
(* C20 *)

\* C20: for the region and spectrum of a mask call, the Inner mask and the
\* Outer mask are 0/1 arrays that add up to 1 at every element, the two
\* masked spectra add up to the spectrum, and the None mask returns the
\* spectrum itself; what the call returned is the masked spectrum of its mode.
C20_MaskComplement ==
    Called("apply_region_mask") =>
        LET c == Get(call)
            S == c.ft_data
            inner == region_mask("Inner", c.selector_region, c.height, c.width)
            outer == region_mask("Outer", c.selector_region, c.height, c.width)
            none == region_mask("None", c.selector_region, c.height, c.width)
        IN  /\ \A p \in DOMAIN S :
                  /\ inner[p] \in {0, 1}
                  /\ outer[p] = 1 - inner[p]
                  /\ masked(S, inner)[p] + masked(S, outer)[p] = S[p]
            /\ masked(S, none) = S
            /\ c.ret = masked(S, IF c.mode = "Inner" THEN inner
                                 ELSE IF c.mode = "Outer" THEN outer
                                 ELSE none)

\* An Outer call whose box lies partly inside the array: some elements were
\* zeroed and some kept.
C20_Witness ==
    /\ Called("apply_region_mask")
    /\ Get(call).mode = "Outer"
    /\ \E p, q \in DOMAIN Get(call).ft_data :
          /\ Get(call).ret[p] = 0
          /\ Get(call).ret[q] = Get(call).ft_data[q]
          /\ Get(call).ft_data[q] # 0

-----------------------------------------------------------------------------
(* C21 *)

\* C21: mix_images called with min_height or min_width None returns the
\* 100 x 100 all-zero raster and raises nothing, whatever the images, weights,
\* selections and region are.
C21_Placeholder ==
    (Called("mix_images") /\ (Get(call).min_height = None
                                 \/ Get(call).min_width = None)) =>
        /\ ~Get(call).raised
        /\ Get(call).ret.kind = "placeholder"
        /\ Get(call).ret.shape = <<100, 100>>
        /\ Get(call).ret.fill = 0

\* The call had a height but no width, and two loaded, weighted slots with a
\* component selected: it returned the placeholder.
C21_Witness ==
    /\ Called("mix_images")
    /\ Get(call).min_height # None
    /\ Get(call).min_width = None
    /\ \A i \in UsedSlots : /\ Get(call).images[i] # None
                             /\ Get(call).weights[i] > 0
                             /\ Get(call).component_selections[i] = "FT Phase"
    /\ Get(call).ret = Placeholder

-----------------------------------------------------------------------------
(* C22 *)

\* C22: clearing slot index leaves it with no raster, brightness 0, contrast
\* 1.0, weight 0 and the default component of the active mode selected, and
\* leaves the raster, brightness, contrast, weight and selection of every
\* other slot as they were.
C22_ClearResetsSlot ==
    [][ \A index \in UsedSlots :
            (CanAct /\ Gui(clear_image(Self, index))) =>
                /\ raw_images'[index] = None
                /\ brightness'[index] = 0
                /\ contrast'[index] = 100
                /\ current_weights'[index] = 0
                /\ component_selectors'[index] =
                      get_component_options(ft_mode')[1]
                /\ \A k \in Slots \ {index} :
                      /\ raw_images'[k] = raw_images[k]
                      /\ brightness'[k] = brightness[k]
                      /\ contrast'[k] = contrast[k]
                      /\ current_weights'[k] = current_weights[k]
                      /\ component_selectors'[k] = component_selectors[k]
      ]_vars

-----------------------------------------------------------------------------
(* C23 *)

\* the component variants of a mode
Variants(mode) ==
    {get_component_options(mode)[n] : n \in 1 .. Len(get_component_options(mode))}

\* C23: one of the two modes is active, every slot's selected component is a
\* variant of the active mode, and the components a mix has combined are
\* variants of one and the same mode.
C23_ModeInvariant ==
    /\ ft_mode \in FtModes
    /\ \A i \in Slots : component_selectors[i] \in Variants(ft_mode)
    /\ \A j \in Jobs :
          (threads[j].result # None /\ Get(threads[j].result).kind = "mixed") =>
              \E mode \in FtModes :
                  \A term \in Get(threads[j].result).terms :
                      term.selected \in Variants(mode)

-----------------------------------------------------------------------------
(* C24 *)

\* the checkpoints of run(): the test at the head of each loop iteration
\* (line 34) and the test before execute_mixing_core (line 46)
AtCheckpoint(j) == threads[j].pc \in {"loop", "final"}

\* C24: a worker that takes a step at a checkpoint with its flag set emits
\* canceled and returns there: it emits nothing else, never calls
\* execute_mixing_core and never emits finished; a worker that has returned
\* does nothing more.
C24_CancelAtCheckpoint ==
    [][ \A j \in Jobs :
            /\ ( /\ AtCheckpoint(j)
                 /\ threads[j]._is_canceled
                 /\ threads'[j] # threads[j] )
                  => /\ threads'[j].pc = "done"
                     /\ emitted'[j] = Append(emitted[j], <<"canceled", 0>>)
            /\ Done(j) => (threads'[j] = threads[j] /\ emitted'[j] = emitted[j])
      ]_vars

-----------------------------------------------------------------------------
(* C25 *)

\* the weights with slot i at w and every other slot at 0
Alone(i, w) == [k \in Slots |-> IF k = i THEN w ELSE 0]

\* C25: with region mode None, the accumulator of a loaded slot mixed alone
\* at weight w is w times its accumulator at weight 1.0 (w in percent: 100
\* times the one is w times the other), for the component selected and for
\* every weight including 0; and the accumulator of the call is the sum of
\* these over the loaded slots of non-zero weight, empty slots and slots of
\* weight 0 adding nothing.
C25_WeightLinearity ==
    (Called("combined_ft") /\ Get(call).mode = "None") =>
        LET c == Get(call)
            acc(i, w) == combined_ft(c.ft_images, Alone(i, w),
                                     c.component_selections, AccRegion, 1, 2,
                                     "None")
            used == {i \in Slots : c.ft_images[i] # None /\ c.weights[i] # 0}
            part(i, p) == IF i \in used THEN acc(i, c.weights[i])[p]
                          ELSE <<0, 0>>
        IN  /\ \A i \in Slots : c.ft_images[i] # None =>
                  \A w \in AccWeightValues : \A p \in Grid(1, 2) :
                      /\ 100 * acc(i, w)[p][1] = w * acc(i, 100)[p][1]
                      /\ 100 * acc(i, w)[p][2] = w * acc(i, 100)[p][2]
            /\ \A p \in Grid(1, 2) :
                  /\ c.ret[p][1] = part(0, p)[1] + part(1, p)[1]
                                     + part(2, p)[1] + part(3, p)[1]
                  /\ c.ret[p][2] = part(0, p)[2] + part(1, p)[2]
                                     + part(2, p)[2] + part(3, p)[2]

\* One slot alone at weight 0.3 with the phase variant, the other slot loaded
\* at weight 0: the accumulator is 0.3 times the unit phasors of the first.
C25_Witness ==
    /\ Called("combined_ft")
    /\ Get(call).mode = "None"
    /\ Get(call).ft_images[0] # None
    /\ Get(call).ft_images[1] # None
    /\ Get(call).weights[0] = 30
    /\ Get(call).weights[1] = 0
    /\ Get(call).component_selections[0] = "FT Phase"
    /\ Get(call).ret = [p \in Grid(1, 2) |->
                           IF p[2] = 0 THEN <<90, 120>> ELSE <<150, 0>>]

-----------------------------------------------------------------------------
(* C26 *)

\* C26: the stored contrast of every slot is never negative; set_contrast
\* stores max(0, value), a drag stores max(0, contrast + dx * 0.01) and the
\* brightness plus dy, set_brightness stores its value as given, whatever it
\* is, and reset_adjustments stores brightness 0 and contrast 1.0.
C26_ContrastClamped ==
    /\ \A i \in Slots : contrast[i] >= 0
    /\ Called("set_contrast") =>
          contrast[Get(call).index] =
              (IF Get(call).value < 0 THEN 0 ELSE Get(call).value)
    /\ Called("set_brightness") =>
          brightness[Get(call).index] = Get(call).value
    /\ Called("mouse_move_event") =>
          LET c == Get(call).before[2] + Get(call).dx
          IN  /\ contrast[Get(call).index] = (IF c < 0 THEN 0 ELSE c)
              /\ brightness[Get(call).index] =
                    Get(call).before[1] + Get(call).dy
    /\ Called("reset_adjustments") =>
          /\ contrast[Get(call).index] = 100
          /\ brightness[Get(call).index] = 0

\* A negative contrast was asked for on a slot and 0 was stored, while the
\* brightness stored for a slot is negative or above 255.
C26_Witness ==
    /\ \/ Called("set_contrast") /\ Get(call).value < 0
       \/ /\ Called("mouse_move_event")
          /\ Get(call).before[2] + Get(call).dx < 0
    /\ contrast[Get(call).index] = 0
    /\ \E i \in Slots : brightness[i] < 0 \/ brightness[i] > 255

-----------------------------------------------------------------------------
(* C27 *)

\* C27: while all four slots are empty, both outputs are empty: nothing a job
\* emits after the last slot was cleared is put on display.
C27_EmptyStaysEmpty ==
    ~any_loaded(raw_images) => (output_image_1 = None /\ output_image_2 = None)

-----------------------------------------------------------------------------
(* C28 *)

\* C28: when a worker is about to call mix_images, the dimensions it passes
\* are defined and are the dimensions of every non-empty processed image it
\* passes in the same call.
C28_FrameMatchesImages ==
    \A j \in Jobs :
        threads[j].pc = "mix" =>
            \A i \in Slots :
                Get(threads[j].processed_images)[i] # None =>
                    /\ threads[j].min_h # None
                    /\ threads[j].min_w # None
                    /\ Get(Get(threads[j].processed_images)[i]).shape =
                          <<Get(threads[j].min_h), Get(threads[j].min_w)>>

-----------------------------------------------------------------------------
(* C29 *)

\* the number of steps run() of thread t can still take at most
StepsLeft(t) ==
    CASE t.pc = "run" -> 11 + NumSlots + steps
      [] t.pc = "loop" -> 10 + NumSlots + (steps - t.i)
      [] t.pc = "final" -> 10 + NumSlots
      [] t.pc = "process" -> 9 + NumSlots
      [] t.pc = "read_selection" ->
             8 + NumSlots - (IF t.component_selections = None THEN 0
                             ELSE Len(Get(t.component_selections)))
      [] t.pc = "read" -> 7
      [] t.pc = "mix" -> 6
      [] t.pc = "emit_100" -> 2
      [] t.pc = "emit_finished" -> 1
      [] t.pc = "except" -> 2
      [] t.pc = "reset" -> 1
      [] OTHER -> 0

\* C29: every step of a worker brings its return nearer (the loop counts up
\* to 5 and is never re-entered, execute_mixing_core is entered once and
\* never again), whether its flag is set or not; and under fair scheduling
\* every started worker returns.
C29_WorkerTerminates ==
    /\ [][ \A j \in Jobs :
              threads'[j] # threads[j] =>
                  \/ threads'[j] = cancel(threads[j])
                  \/ /\ StepsLeft(threads'[j]) < StepsLeft(threads[j])
                     /\ threads'[j].i <= steps
                     /\ threads[j].pc \in {"mix", "emit_100", "emit_finished",
                                           "except", "reset"}
                           => threads'[j].pc \in {"emit_100", "emit_finished",
                                                  "except", "reset", "done"}
          ]_vars
    /\ \A j \in 1 .. (MaxUserOps + 1) :
          (j <= Len(threads)) ~> (j <= Len(threads) /\ threads[j].pc = "done")

\* Job 1 was superseded while it was mixing and has returned after raising;
\* job 2 has returned after finishing.
C29_Witness ==
    /\ Len(threads) = 2
    /\ Done(1) /\ threads[1]._is_canceled /\ Emitted(1, "error")
    /\ Done(2) /\ Emitted(2, "finished")

====
